---- MODULE Spec2Model ----
(***************************************************************************)
(* State-machine model of the download queue of the KusokMedi bot:         *)
(*   src/src/db.py            the job store (users, downloads)             *)
(*   src/src/queue_worker.py  the scheduler loop and the job executor      *)
(*   src/src/bot.py           submission, the per-job observer, delivery,  *)
(*                            the operator's priority commands             *)
(* Every database call is one atomic step (Database.lock); threads         *)
(* interleave between database calls.                                      *)
(*                                                                         *)
(* Time is a logical clock `now` counted in ticks, TicksPerDay ticks to a  *)
(* calendar day.  The host clock is taken to be UTC, so that Python's      *)
(* datetime.now() and SQLite's datetime('now') read the same instant.      *)
(***************************************************************************)
EXTENDS Integers, Sequences, FiniteSets, TLC

\* ------------------------------------------------------------------ bounds
MaxJobs == 3
MaxTime == 3
MaxThreads == 2
MaxCaught == 1
MaxPolls == 3
MaxWatched == 1
MaxPurchases == 2

\* ------------------------------------------------------- program constants
MAX_CONCURRENT_DOWNLOADS == 2
MAX_FILE_SIZE_MB == 1
PROGRESS_UPDATE_INTERVAL == 1
DiagnosticChars == 100
PRIORITY_DAYS == 1
ADMIN_ID == 1
TicksPerDay == 2
NULL_INT == -1

NULL == "NULL"
INFINITE == "INFINITE"

UserIds == 1..3
Urls == {"L1"}
Formats == {"720p"}
FileNames == {"v.mp4"}
GiveDays == {-1, 1}
Threshold == MAX_FILE_SIZE_MB * 1024 * 1024
Sizes == {0, Threshold, Threshold + 1}
Threads == 1..MaxThreads
Paths == UserIds \X FileNames
NoPath == <<>>

\* ------------------------------------------------------------------- state
VARIABLES
    now,          \* the wall clock, in ticks
    polling,      \* run_bot has started the worker and the bot polls updates
    users,        \* table users: user_id -> priority_until (rows that exist)
    downloads,    \* table downloads: sequence of rows, download_id = index
    files,        \* the storage directory: path -> size in bytes
    url_cache,    \* bot.url_cache: user_id -> url
    is_running,   \* QueueWorker.is_running
    sched,        \* scheduler threads: thread -> [pc, active_count, pending_downloads, download, file_path]
    observers,    \* _update_progress_loop threads, one per download
    admitted,     \* history: download ids in the order line 87 marked them downloading
    firstAdmitLen,\* history: number of rows when the first admission happened
    touched,      \* history: jobs whose owner's priority_until was written since submission
    terminal,     \* history: jobs that have been completed or failed at some time
    lastWrite,    \* history: per job, the last update_download_status call (or none)
    progress_messages, \* bot.progress_messages: the download ids that have an entry
    caught,       \* history: exceptions caught by the handler of _run_loop (line 68)
    progress_loop,\* the local variables of each _update_progress_loop thread
    priority_purchases, \* table priority_purchases: sequence of rows, purchase_id = index
    lock,         \* Database.lock is held
    request       \* history: the update the bot handled last (sender, handler, argument)

vars == <<now, polling, users, downloads, files, url_cache, is_running, sched,
          observers, admitted, firstAdmitLen, touched, terminal, lastWrite,
          progress_messages, caught, progress_loop, priority_purchases, lock,
          request>>

\* ----------------------------------------------------- priority_until text
\* users.priority_until holds NULL, the text 'INFINITE', or datetime.isoformat().
NullPU == [kind |-> NULL, at |-> 0]
InfPU == [kind |-> INFINITE, at |-> 0]
IsoPU(t) == [kind |-> "iso", at |-> t]

DayOf(t) == t \div TicksPerDay
TimeOfDay(t) == t % TicksPerDay

\* The two texts, as <<date, separator character code, time of day>>:
\* isoformat() writes 'YYYY-MM-DDTHH:MM:SS' and datetime('now') writes
\* 'YYYY-MM-DD HH:MM:SS'.  84 is 'T' and 32 is ' '.
IsoFormat(t) == <<DayOf(t), 84, TimeOfDay(t)>>
SqlDatetime(t) == <<DayOf(t), 32, TimeOfDay(t)>>

\* SQLite compares two TEXT values character by character.
TextGreater(a, b) ==
    \E i \in 1..3 : a[i] > b[i] /\ \A k \in 1..(i - 1) : a[k] = b[k]

\* set_priority: days < 0 gives INFINITE, else now + days.
set_priority(days, t) ==
    IF days < 0 THEN InfPU ELSE IsoPU(t + days * TicksPerDay)

\* has_priority: parses the text and compares instants.
has_priority(pu, t) ==
    \/ pu.kind = INFINITE
    \/ pu.kind = "iso" /\ pu.at > t

\* the CASE expression of get_all_pending_downloads' ORDER BY
CaseTier(pu, t) ==
    IF \/ pu.kind = INFINITE
       \/ pu.kind # NULL /\ TextGreater(IsoFormat(pu.at), SqlDatetime(t))
    THEN 0 ELSE 1

\* --------------------------------------------------------- table downloads
NewRow(u, url, fmt, t) ==
    [user_id |-> u, video_url |-> url, video_title |-> NULL, file_path |-> NoPath,
     file_size_bytes |-> NULL_INT, format |-> fmt, status |-> "pending",
     progress |-> 0, speed_mbps |-> 0, eta_seconds |-> 0, created_at |-> t,
     completed_at |-> NULL_INT, error_message |-> NULL]

add_download(dls, u, url, fmt, t) == Append(dls, NewRow(u, url, fmt, t))

\* SELECT * : the columns in schema order
SelectStar(dls, id) ==
    LET r == dls[id] IN
    <<id, r.user_id, r.video_url, r.video_title, r.file_path, r.file_size_bytes,
      r.format, r.status, r.progress, r.speed_mbps, r.eta_seconds, r.created_at,
      r.completed_at, r.error_message>>

\* get_download: the row as a dict, by column index (Python's result[0] is result[1] here)
get_download(dls, id) ==
    LET result == SelectStar(dls, id) IN
    [download_id |-> result[1], user_id |-> result[2], video_url |-> result[3],
     video_title |-> result[4], file_path |-> result[5],
     file_size_bytes |-> result[6], format |-> result[7], status |-> result[8],
     progress |-> result[9], speed_mbps |-> result[10], eta_seconds |-> result[11],
     created_at |-> result[12], completed_at |-> result[13],
     error_message |-> result[14]]

update_download_progress(dls, id, pct) ==
    [dls EXCEPT ![id].progress = pct, ![id].speed_mbps = 0, ![id].eta_seconds = 0]

update_download_status_keep_size(dls, id, status, file_path, file_size_bytes, error_message, t) ==
    [dls EXCEPT ![id].status = status,
                ![id].file_path = file_path,
                ![id].error_message = error_message,
                ![id].completed_at = IF status = "completed" THEN t ELSE NULL_INT]
\* update_download_status: one UPDATE writing all five columns, whatever the row holds
update_download_status_coalesce(dls, id, status, file_path, file_size_bytes, error_message, t) ==
    [dls EXCEPT ![id].status = status,
                ![id].file_path = file_path,
                ![id].file_size_bytes = file_size_bytes,
                ![id].error_message = error_message,
                ![id].completed_at = IF status = "completed" THEN t
                                     ELSE dls[id].completed_at]
update_download_status_requeue(dls, id, status, file_path, file_size_bytes, error_message, t) ==
    [dls EXCEPT ![id].status = IF status = "failed" THEN "pending" ELSE status,
                ![id].file_path = file_path,
                ![id].file_size_bytes = file_size_bytes,
                ![id].error_message = error_message,
                ![id].completed_at = IF status = "completed" THEN t ELSE NULL_INT]
update_download_status(dls, id, status, file_path, file_size_bytes, error_message, t) ==
    [dls EXCEPT ![id].status = status,
                ![id].file_path = file_path,
                ![id].file_size_bytes = file_size_bytes,
                ![id].error_message = error_message,
                ![id].completed_at = IF status = "completed" THEN t ELSE NULL_INT]

ActiveStatuses == {"downloading", "converting", "sending"}
count_active_downloads(dls) ==
    Cardinality({id \in DOMAIN dls : dls[id].status \in ActiveStatuses})

\* Rows of the join downloads JOIN users with status pending.
PendingIds(dls, us) ==
    {id \in DOMAIN dls : dls[id].status = "pending" /\ dls[id].user_id \in DOMAIN us}

\* ORDER BY CASE ..., d.created_at; rows equal in both come in rowid order.
OrderBefore(dls, us, t, a, b) ==
    LET ka == CaseTier(us[dls[a].user_id], t)
        kb == CaseTier(us[dls[b].user_id], t)
    IN \/ ka < kb
       \/ ka = kb /\ dls[a].created_at < dls[b].created_at
       \/ ka = kb /\ dls[a].created_at = dls[b].created_at /\ a < b

get_all_pending_downloads_fifo(dls, us, t) ==
    LET S == PendingIds(dls, us)
        Pos(i) == 1 + Cardinality({k \in S : k < i})
    IN [p \in 1..Cardinality(S) |-> CHOOSE i \in S : Pos(i) = p]
get_all_pending_downloads(dls, us, t) ==
    LET S == PendingIds(dls, us)
        Pos(i) == 1 + Cardinality({k \in S : OrderBefore(dls, us, t, k, i)})
    IN [p \in 1..Cardinality(S) |-> CHOOSE i \in S : Pos(i) = p]

\* get_completed_download_by_url_format: ORDER BY completed_at DESC LIMIT 1
\* over the completed rows of (url, format) with a file_path; 0 when none.
get_completed_download_by_url_format(dls, url, fmt) ==
    LET S == {id \in DOMAIN dls : /\ dls[id].video_url = url
                                  /\ dls[id].format = fmt
                                  /\ dls[id].status = "completed"
                                  /\ dls[id].file_path # NoPath}
    IN IF S = {} THEN 0
       ELSE CHOOSE id \in S : \A k \in S :
                \/ dls[k].completed_at < dls[id].completed_at
                \/ dls[k].completed_at = dls[id].completed_at /\ id <= k

\* ------------------------------------------------------------ table users
\* add_or_update_user: INSERT ... ON CONFLICT DO UPDATE of username and first_name only
add_or_update_user(us, u) ==
    IF u \in DOMAIN us THEN us
    ELSE [x \in DOMAIN us \cup {u} |-> IF x = u THEN NullPU ELSE us[x]]

\* UPDATE users SET priority_until = ? WHERE user_id = ?
SetPriorityUntil(us, u, pu) ==
    [x \in DOMAIN us |-> IF x = u THEN pu ELSE us[x]]

admin_give_priority(us, u, days, t) ==
    SetPriorityUntil(add_or_update_user(us, u), u, set_priority(days, t))

admin_remove_priority(us, u) == SetPriorityUntil(us, u, NullPU)

\* ---------------------------------------------------------------- threads
IdleSched == [pc |-> "none", active_count |-> 0, pending_downloads |-> <<>>, download |-> 0,
              file_path |-> NoPath]
NewObserver == [pc |-> "poll", file_path |-> NoPath, file_size |-> NULL_INT, outcome |-> "none",
                error_shown |-> 0]
NoWrite == [status |-> NULL, file_path |-> NoPath, file_size_bytes |-> NULL_INT]

\* _update_progress_loop, lines 822-825, with the values its first poll finds:
\* start_time is read when the thread starts. status and progress are what
\* the last poll read, polls counts the polls that stayed in the loop, and
\* emitted and emit_* are history: whether the last poll's edit of the
\* progress message went through, and the instant, progress and status of the
\* last edit that did.
NewLoop == [polls |-> 0, start_time |-> 0, status |-> "", progress |-> 0,
            last_update |-> 0, last_progress |-> -1, last_status |-> "",
            emitted |-> FALSE, emit_time |-> 0, emit_progress |-> -1,
            emit_status |-> ""]

\* No update handled yet.
NoRequest == [from |-> 0, handler |-> "", arg |-> 0, days |-> 0, n |-> 0]

Init ==
    /\ now = 0
    /\ polling = FALSE
    /\ users = <<>>
    /\ downloads = <<>>
    /\ files = <<>>
    /\ url_cache = <<>>
    /\ is_running = FALSE
    /\ sched = [t \in Threads |-> IdleSched]
    /\ observers = <<>>
    /\ admitted = <<>>
    /\ firstAdmitLen = 0
    /\ touched = {}
    /\ terminal = {}
    /\ lastWrite = <<>>
    /\ progress_messages = {}
    /\ caught = 0
    /\ progress_loop = <<>>
    /\ priority_purchases = <<>>
    /\ lock = FALSE
    /\ request = NoRequest

\* One update_download_status call on the store, with the history it leaves.
WriteStatus(id, status, file_path, file_size_bytes, error_message) ==
    /\ downloads' = update_download_status(downloads, id, status, file_path,
                                           file_size_bytes, error_message, now)
    /\ lastWrite' = [lastWrite EXCEPT ![id] =
                        [status |-> status, file_path |-> file_path,
                         file_size_bytes |-> file_size_bytes]]
    /\ terminal' = IF status \in {"completed", "failed"}
                   THEN terminal \cup {id} ELSE terminal

\* ------------------------------------------------------------ QueueWorker
FreeThreads == {t \in Threads : sched[t].pc \in {"none", "exited"}}

\* QueueWorker.start
start ==
    IF is_running
    THEN UNCHANGED <<is_running, sched>>
    ELSE /\ FreeThreads # {}
         /\ is_running' = TRUE
         /\ LET t == CHOOSE x \in FreeThreads : \A y \in FreeThreads : x <= y
            IN sched' = [sched EXCEPT ![t] = [IdleSched EXCEPT !.pc = "loop"]]

\* QueueWorker.stop: clears the flag; join(timeout=5) returns whether or not
\* the loop thread has ended.
stop ==
    /\ is_running' = FALSE
    /\ UNCHANGED sched

\* run_bot: start_queue_worker(), then the bot polls for updates.
run_bot ==
    /\ ~polling
    /\ polling' = TRUE
    /\ start
    /\ UNCHANGED <<now, users, downloads, files, url_cache, observers, admitted,
                   firstAdmitLen, touched, terminal, lastWrite,
                   progress_messages, caught,
                   priority_purchases, lock, progress_loop, request>>

\* stop()'s join(timeout=5) has returned: every loop thread has ended, or is
\* still inside a fetch that outlasts the timeout.
JoinReturned ==
    \A t \in Threads : sched[t].pc \in {"none", "exited", "fetching"}

\* start_queue_worker / stop_queue_worker called again on the running process
StartWorker ==
    /\ polling
    /\ ~is_running
    /\ JoinReturned
    /\ start
    /\ UNCHANGED <<now, polling, users, downloads, files, url_cache, observers,
                   admitted, firstAdmitLen, touched, terminal, lastWrite,
                   progress_messages, caught,
                   priority_purchases, lock, progress_loop, request>>

StopWorker ==
    /\ polling
    /\ is_running
    /\ stop
    /\ UNCHANGED <<now, polling, users, downloads, files, url_cache, observers,
                   admitted, firstAdmitLen, touched, terminal, lastWrite,
                   progress_messages, caught,
                   priority_purchases, lock, progress_loop, request>>

SchedCount_nocap(t) ==
    /\ sched[t].pc = "loop"
    /\ sched' = [sched EXCEPT ![t] =
                    IF ~is_running THEN [IdleSched EXCEPT !.pc = "exited"]
                    ELSE [IdleSched EXCEPT !.pc = "read_pending",
                                           !.active_count = count_active_downloads(downloads)]]
    /\ UNCHANGED <<now, polling, users, downloads, files, url_cache, is_running,
                   observers, admitted, firstAdmitLen, touched, terminal, lastWrite,
                   progress_messages, caught,
                   priority_purchases, lock, progress_loop, request>>

\* _run_loop, lines 55-60: the loop test, count_active_downloads, the cap test.
SchedCount(t) ==
    /\ sched[t].pc = "loop"
    /\ LET active_count == count_active_downloads(downloads) IN
        sched' = [sched EXCEPT ![t] =
                    IF ~is_running THEN [IdleSched EXCEPT !.pc = "exited"]
                    ELSE IF active_count < MAX_CONCURRENT_DOWNLOADS
                         THEN [IdleSched EXCEPT !.pc = "read_pending",
                                                !.active_count = active_count]
                         ELSE [IdleSched EXCEPT !.pc = "loop"]]
    /\ UNCHANGED <<now, polling, users, downloads, files, url_cache, is_running,
                   observers, admitted, firstAdmitLen, touched, terminal, lastWrite,
                   progress_messages, caught,
                   priority_purchases, lock, progress_loop, request>>

\* _run_loop, lines 61-64: get_all_pending_downloads and the choice of its head.
SchedReadPending(t) ==
    /\ sched[t].pc = "read_pending"
    /\ LET pending == get_all_pending_downloads(downloads, users, now) IN
        sched' = [sched EXCEPT ![t] =
                    IF pending = <<>> THEN [IdleSched EXCEPT !.pc = "loop"]
                    ELSE [IdleSched EXCEPT !.pc = "process",
                                           !.active_count = sched[t].active_count,
                                           !.pending_downloads = pending,
                                           !.download = pending[1]]]
    /\ UNCHANGED <<now, polling, users, downloads, files, url_cache, is_running,
                   observers, admitted, firstAdmitLen, touched, terminal, lastWrite,
                   progress_messages, caught,
                   priority_purchases, lock, progress_loop, request>>

\* _process_download, lines 81-87: mkdir, then the status write "downloading".
\* mkdir raising lands in the handler of line 128, which marks the job failed.
ProcessAdmit(t) ==
    /\ sched[t].pc = "process"
    /\ LET id == sched[t].download IN
        \/ /\ WriteStatus(id, "downloading", NoPath, NULL_INT, NULL)
           /\ sched' = [sched EXCEPT ![t].pc = "fetching", ![t].pending_downloads = <<>>,
                                      ![t].active_count = 0]
           /\ admitted' = Append(admitted, id)
           /\ firstAdmitLen' = IF admitted = <<>> THEN Len(downloads) ELSE firstAdmitLen
        \/ /\ WriteStatus(id, "failed", NoPath, NULL_INT, "mkdir failed")
           /\ sched' = [sched EXCEPT ![t] = [IdleSched EXCEPT !.pc = "loop"]]
           /\ UNCHANGED <<admitted, firstAdmitLen>>
    /\ UNCHANGED <<now, polling, users, files, url_cache, is_running, observers, touched,
                   progress_messages, caught,
                   priority_purchases, lock, progress_loop, request>>

\* download_video returning success: the file is in the user's directory, and
\* line 286 has called progress_callback("completed", 100, ...), which writes
\* the progress when PROGRESS_UPDATE_INTERVAL has passed since the last write.
FetchSucceed(t, name, size, wrote) ==
    /\ sched[t].pc = "fetching"
    /\ LET id == sched[t].download
           path == <<downloads[id].user_id, name>>
       IN /\ files' = [p \in DOMAIN files \cup {path} |->
                          IF p = path THEN size ELSE files[p]]
          /\ sched' = [sched EXCEPT ![t].pc = "stat", ![t].file_path = path]
          /\ IF wrote
             THEN /\ downloads' = update_download_progress(downloads, id, 100)
                  /\ lastWrite' = [lastWrite EXCEPT ![id] = NoWrite]
             ELSE UNCHANGED <<downloads, lastWrite>>
    /\ UNCHANGED <<now, polling, users, url_cache, is_running, observers, admitted,
                   firstAdmitLen, touched, terminal,
                   progress_messages, caught,
                   priority_purchases, lock, progress_loop, request>>

FetchFail_return(t, error_msg) ==
    /\ sched[t].pc = "fetching"
    /\ sched' = [sched EXCEPT ![t] = [IdleSched EXCEPT !.pc = "loop"]]
    /\ UNCHANGED <<now, polling, users, downloads, files, url_cache, is_running,
                   observers, admitted, firstAdmitLen, touched, terminal, lastWrite,
                   progress_messages, caught,
                   priority_purchases, lock, progress_loop, request>>

\* download_video returning failure, lines 106-110.
FetchFail(t, error_msg) ==
    /\ sched[t].pc = "fetching"
    /\ WriteStatus(sched[t].download, "failed", NoPath, NULL_INT, error_msg)
    /\ sched' = [sched EXCEPT ![t] = [IdleSched EXCEPT !.pc = "loop"]]
    /\ UNCHANGED <<now, polling, users, files, url_cache, is_running, observers,
                   admitted, firstAdmitLen, touched,
                   progress_messages, caught,
                   priority_purchases, lock, progress_loop, request>>

\* lines 115-121: stat the file and write "completed"; stat raising (the file is
\* gone) lands in the handler of line 128.
Complete(t) ==
    /\ sched[t].pc = "stat"
    /\ LET id == sched[t].download
           file_path == sched[t].file_path
       IN IF file_path \in DOMAIN files
          THEN WriteStatus(id, "completed", file_path, files[file_path], NULL)
          ELSE WriteStatus(id, "failed", NoPath, NULL_INT, "No such file")
    /\ sched' = [sched EXCEPT ![t] = [IdleSched EXCEPT !.pc = "loop"]]
    /\ UNCHANGED <<now, polling, users, files, url_cache, is_running, observers,
                   admitted, firstAdmitLen, touched,
                   progress_messages, caught,
                   priority_purchases, lock, progress_loop, request>>

\* -------------------------------------------------------------------- bot
\* handle_video_link: remembers the url and upserts the user.
handle_video_link(u, url) ==
    /\ polling
    /\ url_cache' = [x \in DOMAIN url_cache \cup {u} |->
                       IF x = u THEN url ELSE url_cache[x]]
    /\ users' = add_or_update_user(users, u)
    /\ UNCHANGED <<now, polling, downloads, files, is_running, sched, observers,
                   admitted, firstAdmitLen, touched, terminal, lastWrite,
                   progress_messages, caught,
                   priority_purchases, lock, progress_loop>>

\* The cache test of handle_download_callback, lines 790-791.
CacheHit(url, fmt) ==
    LET cached == get_completed_download_by_url_format(downloads, url, fmt)
    IN cached # 0 /\ downloads[cached].file_path \in DOMAIN files

handle_download_callback_evict(u, fmt) ==
    /\ polling
    /\ u \in DOMAIN url_cache
    /\ IF CacheHit(url_cache[u], fmt)
       THEN UNCHANGED <<downloads, observers, lastWrite, progress_messages, progress_loop>>
       ELSE /\ LET cached == get_completed_download_by_url_format(downloads, url_cache[u], fmt)
                   kept == IF cached = 0 THEN downloads
                           ELSE [downloads EXCEPT ![cached].status = "failed"]
               IN downloads' = add_download(kept, u, url_cache[u], fmt, now)
            /\ progress_messages' = progress_messages \cup {Len(downloads) + 1}
            /\ observers' = Append(observers, NewObserver)
            /\ progress_loop' = Append(progress_loop, NewLoop)
            /\ lastWrite' = Append(lastWrite, NoWrite)
    /\ UNCHANGED <<now, polling, users, files, url_cache, is_running, sched,
                   admitted, firstAdmitLen, touched, terminal, caught,
                   priority_purchases, lock>>

\* handle_download_callback: a cache hit sends the cached file and adds nothing;
\* otherwise add_download and the job's observer thread.
handle_download_callback(u, fmt) ==
    /\ polling
    /\ u \in DOMAIN url_cache
    /\ IF CacheHit(url_cache[u], fmt)
       THEN UNCHANGED <<downloads, observers, lastWrite, progress_messages, progress_loop>>
       ELSE /\ downloads' = add_download(downloads, u, url_cache[u], fmt, now)
            /\ progress_messages' = progress_messages \cup {Len(downloads) + 1}
            /\ observers' = Append(observers, NewObserver)
            /\ progress_loop' = Append(progress_loop, NewLoop)
            /\ lastWrite' = Append(lastWrite, NoWrite)
    /\ UNCHANGED <<now, polling, users, files, url_cache, is_running, sched,
                   admitted, firstAdmitLen, touched, terminal, caught,
                   priority_purchases, lock>>

\* The jobs submitted by u.
JobsOf(u) == {id \in DOMAIN downloads : downloads[id].user_id = u}

process_give_priority_anyone(caller, user_id, days) ==
    /\ polling
    /\ days # 0
    /\ LET d == IF user_id = ADMIN_ID /\ days > 0 THEN -1 ELSE days
       IN users' = admin_give_priority(users, user_id, d, now)
    /\ touched' = touched \cup JobsOf(user_id)
    /\ UNCHANGED <<now, polling, downloads, files, url_cache, is_running, sched,
                   observers, admitted, firstAdmitLen, terminal, lastWrite,
                   progress_messages, caught,
                   priority_purchases, lock, progress_loop>>

process_give_priority_asked(caller, user_id, days) ==
    /\ polling
    /\ caller = ADMIN_ID
    /\ IF days = 0
       THEN UNCHANGED <<users, touched>>
       ELSE /\ users' = admin_give_priority(users, user_id, days, now)
            /\ touched' = touched \cup JobsOf(user_id)
    /\ UNCHANGED <<now, polling, downloads, files, url_cache, is_running, sched,
                   observers, admitted, firstAdmitLen, terminal, lastWrite,
                   progress_messages, caught,
                   priority_purchases, lock, progress_loop>>

\* process_give_priority: the operator only; 0 days is refused with a notice
\* (lines 293-295); the operator's own positive grant becomes INFINITE
\* (lines 306-307).
process_give_priority(caller, user_id, days) ==
    /\ polling
    /\ caller = ADMIN_ID
    /\ IF days = 0
       THEN UNCHANGED <<users, touched>>
       ELSE /\ LET d == IF user_id = ADMIN_ID /\ days > 0 THEN -1 ELSE days
               IN users' = admin_give_priority(users, user_id, d, now)
            /\ touched' = touched \cup JobsOf(user_id)
    /\ UNCHANGED <<now, polling, downloads, files, url_cache, is_running, sched,
                   observers, admitted, firstAdmitLen, terminal, lastWrite,
                   progress_messages, caught,
                   priority_purchases, lock, progress_loop>>

\* process_remove_priority: the operator only.
process_remove_priority(caller, user_id) ==
    /\ polling
    /\ caller = ADMIN_ID
    /\ users' = admin_remove_priority(users, user_id)
    /\ touched' = touched \cup JobsOf(user_id)
    /\ UNCHANGED <<now, polling, downloads, files, url_cache, is_running, sched,
                   observers, admitted, firstAdmitLen, terminal, lastWrite,
                   progress_messages, caught,
                   priority_purchases, lock, progress_loop>>

\* ---------------------------------------------------- priority purchases
\* add_priority_purchase: INSERT with status 'pending'; the other columns NULL.
add_priority_purchase(user_id) ==
    /\ polling
    /\ ~lock
    /\ Len(priority_purchases) < MaxPurchases
    /\ priority_purchases' = Append(priority_purchases,
            [user_id |-> user_id, status |-> "pending", confirmed_at |-> NULL_INT,
             priority_until |-> NullPU])
    /\ UNCHANGED <<now, polling, users, downloads, files, url_cache, is_running, sched,
                   observers, admitted, firstAdmitLen, touched, terminal, lastWrite,
                   progress_messages, caught, progress_loop, lock, request>>

confirm_priority_purchase_acquire(purchase_id, priority_days) ==
    /\ ~lock
    /\ IF purchase_id \in DOMAIN priority_purchases
       THEN LET priority_until == IsoPU(now + priority_days * TicksPerDay)
                user_id == priority_purchases[purchase_id].user_id
            IN /\ priority_purchases' =
                     [priority_purchases EXCEPT ![purchase_id].status = "confirmed",
                                                ![purchase_id].confirmed_at = now,
                                                ![purchase_id].priority_until = priority_until]
               /\ users' = SetPriorityUntil(users, user_id, priority_until)
               /\ touched' = touched \cup JobsOf(user_id)
               /\ lock' = FALSE
       ELSE /\ lock' = TRUE
            /\ UNCHANGED <<priority_purchases, users, touched>>

\* confirm_priority_purchase, under "with self.lock": the SELECT of the
\* purchase's user_id, then the two UPDATEs and the commit. For a purchase_id
\* that has no row, fetchone() is None and line 487 raises TypeError before
\* any UPDATE; leaving the with block releases the lock.
confirm_priority_purchase(purchase_id, priority_days) ==
    /\ ~lock
    /\ IF purchase_id \in DOMAIN priority_purchases
       THEN LET priority_until == IsoPU(now + priority_days * TicksPerDay)
                user_id == priority_purchases[purchase_id].user_id
            IN /\ priority_purchases' =
                     [priority_purchases EXCEPT ![purchase_id].status = "confirmed",
                                                ![purchase_id].confirmed_at = now,
                                                ![purchase_id].priority_until = priority_until]
               /\ users' = SetPriorityUntil(users, user_id, priority_until)
               /\ touched' = touched \cup JobsOf(user_id)
       ELSE UNCHANGED <<priority_purchases, users, touched>>
    /\ lock' = FALSE

\* handle_confirm_priority_callback: the operator only; the notices that
\* follow the store call change nothing.
handle_confirm_priority_callback(caller, purchase_id) ==
    /\ polling
    /\ caller = ADMIN_ID
    /\ confirm_priority_purchase(purchase_id, PRIORITY_DAYS)
    /\ UNCHANGED <<now, polling, downloads, files, url_cache, is_running, sched,
                   observers, admitted, firstAdmitLen, terminal, lastWrite,
                   progress_messages, caught, progress_loop>>

\* reject_priority_purchase: UPDATE ... SET status = 'rejected' WHERE purchase_id = ?
reject_priority_purchase(purchase_id) ==
    /\ ~lock
    /\ priority_purchases' =
          IF purchase_id \in DOMAIN priority_purchases
          THEN [priority_purchases EXCEPT ![purchase_id].status = "rejected"]
          ELSE priority_purchases
    /\ lock' = FALSE

\* handle_reject_priority_callback: the operator only.
handle_reject_priority_callback(caller, purchase_id) ==
    /\ polling
    /\ caller = ADMIN_ID
    /\ reject_priority_purchase(purchase_id)
    /\ UNCHANGED <<now, polling, users, downloads, files, url_cache, is_running, sched,
                   observers, admitted, firstAdmitLen, touched, terminal, lastWrite,
                   progress_messages, caught, progress_loop>>

\* The text of the NameError that line 263 raises.
SelfUndefined == "name 'self' is not defined"

\* _progress_hook (lines 318-336) as line 263 means to call it: the percentage
\* of the bytes downloaded, passed to progress_callback, which writes it when
\* PROGRESS_UPDATE_INTERVAL has passed since its last write.
ProgressHook_bound(t, downloaded, total, wrote) ==
    /\ sched[t].pc = "fetching"
    /\ LET id == sched[t].download
           pct == IF total > 0 THEN (downloaded * 100) \div total ELSE 0
       IN IF wrote
          THEN /\ downloads' = update_download_progress(downloads, id, pct)
               /\ lastWrite' = [lastWrite EXCEPT ![id] = NoWrite]
          ELSE UNCHANGED <<downloads, lastWrite>>
    /\ UNCHANGED <<now, polling, users, files, url_cache, is_running, sched, observers,
                   admitted, firstAdmitLen, touched, terminal, progress_messages,
                   caught, progress_loop, priority_purchases, lock, request>>

\* The fetch reports downloaded of total bytes to its progress hook, the
\* lambda of line 263. The lambda reads the name self, which download_video
\* (a module-level function) does not bind: the NameError ends extract_info
\* and line 310 returns it as the error of the fetch. _progress_hook is not
\* reached, and nothing is written for the report.
ProgressHook(t, downloaded, total, wrote) ==
    FetchFail(t, SelfUndefined)

\* Error texts. download_video names three kinds itself (lines 300-306) and
\* passes every other failure on as str(e) (lines 309, 312, 316); a timeout of
\* the transfer arrives that way, worded by the library that raised it.
GeoBlocked == "video_geo_blocked"
Private == "video_private"
Unavailable == "video_unavailable"
ReadTimeout == "Read timed out. (read timeout=20.0)"
TimedOut == "The read operation timed out"
TimeoutTexts == {ReadTimeout, TimedOut}
SignIn == "ERROR: [youtube] dQw4w9WgXcQ: Sign in to confirm you're not a bot. Use --cookies-from-browser or --cookies for the authentication. See the FAQ for how to manually pass cookies."

\* The number of characters of a text.
Chars(error_msg) ==
    CASE error_msg = GeoBlocked -> 17
      [] error_msg = Private -> 13
      [] error_msg = Unavailable -> 17
      [] error_msg = ReadTimeout -> 35
      [] error_msg = TimedOut -> 28
      [] error_msg = SignIn -> 176
      [] error_msg = SelfUndefined -> 26
      [] error_msg = "Download timeout" -> 16
      [] error_msg = "mkdir failed" -> 12
      [] OTHER -> 0

\* The words of lines 897-903 that occur in a text, lower-cased.
Words(error_msg) ==
    CASE error_msg = GeoBlocked -> {"geo_blocked", "geo"}
      [] error_msg = Private -> {"private"}
      [] error_msg = Unavailable -> {"unavailable"}
      [] error_msg = ReadTimeout -> {"timeout"}
      [] error_msg = "Download timeout" -> {"timeout"}
      [] OTHER -> {}

\* _update_progress_loop, lines 895-906: the category of the message shown.
friendly_error(error_msg) ==
    IF "geo_blocked" \in Words(error_msg) \/ "geo" \in Words(error_msg) THEN "geo"
    ELSE IF "private" \in Words(error_msg) THEN "private"
    ELSE IF "unavailable" \in Words(error_msg) THEN "unavailable"
    ELSE IF "timeout" \in Words(error_msg) THEN "timeout"
    ELSE "other"

\* Lines 897-908: the number of characters of error_msg that the message
\* shown to the user includes: all of them in the last branch (line 908),
\* none in the others.
error_chars_shown(error_msg) ==
    IF friendly_error(error_msg) = "other" THEN Chars(error_msg) ELSE 0

\* _update_progress_loop, lines 827-836: one poll; a terminal status leaves the loop.
ObsPoll(id) ==
    /\ observers[id].pc = "poll"
    /\ LET download == get_download(downloads, id) IN
        observers' = [observers EXCEPT ![id].pc =
                        IF download.status \in {"completed", "failed"}
                        THEN "final" ELSE "poll"]
    /\ UNCHANGED <<now, polling, users, downloads, files, url_cache, is_running,
                   sched, admitted, firstAdmitLen, touched, terminal, lastWrite,
                   progress_messages, caught,
                   priority_purchases, lock, progress_loop, request>>

\* Line 836 (and 831: the row is absent, which no operation of the store
\* brings about): the statuses that end the polling loop.
LeavesLoop_completed(status) == status = "completed"

LeavesLoop(status) == status \in {"completed", "failed"}

should_update_always(elapsed, last_update, progress, last_progress, status, last_status) ==
    TRUE

\* Lines 845-849.
should_update(elapsed, last_update, progress, last_progress, status, last_status) ==
    \/ elapsed - last_update > PROGRESS_UPDATE_INTERVAL
    \/ progress # last_progress
    \/ status # last_status

\* _update_progress_loop, lines 822-885: one iteration of the polling loop with
\* its local variables; ok is whether bot.edit_message_text returns or raises.
\* ObsPoll above is this iteration without the locals, which nothing but the
\* loop itself reads.
ObsPollEmit(id, ok) ==
    /\ observers[id].pc = "poll"
    /\ LET download == get_download(downloads, id)
           loop == progress_loop[id]
           start_time == IF loop.status = "" THEN now ELSE loop.start_time
           status == download.status
           progress == download.progress
           elapsed == now - start_time
           update == should_update(elapsed, loop.last_update, progress,
                                   loop.last_progress, status, loop.last_status)
           edited == update /\ id \in progress_messages /\ ok
       IN IF LeavesLoop(status)
          THEN /\ observers' = [observers EXCEPT ![id].pc = "final"]
               /\ progress_loop' = [progress_loop EXCEPT ![id].status = status,
                                                         ![id].start_time = start_time,
                                                         ![id].emitted = FALSE]
          ELSE /\ loop.polls < MaxPolls
               /\ progress_loop' = [progress_loop EXCEPT ![id] =
                     [polls |-> loop.polls + 1,
                      start_time |-> start_time,
                      status |-> status,
                      progress |-> progress,
                      last_update |-> IF update THEN elapsed ELSE loop.last_update,
                      last_progress |-> IF edited THEN progress ELSE loop.last_progress,
                      last_status |-> IF edited THEN status ELSE loop.last_status,
                      emitted |-> edited,
                      emit_time |-> IF edited THEN now ELSE loop.emit_time,
                      emit_progress |-> IF edited THEN progress ELSE loop.emit_progress,
                      emit_status |-> IF edited THEN status ELSE loop.emit_status]]
               /\ UNCHANGED observers
    /\ UNCHANGED <<now, polling, users, downloads, files, url_cache, is_running,
                   sched, admitted, firstAdmitLen, touched, terminal, lastWrite,
                   progress_messages, caught, priority_purchases, lock, request>>

\* lines 888-913 and _send_completed_download up to line 1012: the second read
\* of the job. A completed job with an existing, non-empty file goes on to be
\* sent; a failed job has its friendly message shown in its progress message.
ObsFinal(id) ==
    /\ observers[id].pc = "final"
    /\ LET download == get_download(downloads, id) IN
        observers' = [observers EXCEPT ![id] =
            IF download.status = "completed"
            THEN [pc |-> IF \/ download.file_path = NoPath
                            \/ download.file_path \notin DOMAIN files
                            \/ download.file_size_bytes = 0
                         THEN "done" ELSE "send",
                  file_path |-> download.file_path,
                  file_size |-> download.file_size_bytes,
                  outcome |-> IF \/ download.file_path = NoPath
                                 \/ download.file_path \notin DOMAIN files
                              THEN "missing"
                              ELSE IF download.file_size_bytes = 0 THEN "empty"
                              ELSE "none",
                  error_shown |-> 0]
            ELSE IF download.status = "failed" /\ id \in progress_messages
            THEN [NewObserver EXCEPT !.pc = "done",
                                     !.outcome = friendly_error(download.error_message),
                                     !.error_shown = error_chars_shown(download.error_message)]
            ELSE [NewObserver EXCEPT !.pc = "done"]]
    /\ UNCHANGED <<now, polling, users, downloads, files, url_cache, is_running,
                   sched, admitted, firstAdmitLen, touched, terminal, lastWrite,
                   progress_messages, caught,
                   priority_purchases, lock, progress_loop, request>>

\* _send_completed_download, line 1015.
ObsSend(id) ==
    /\ observers[id].pc = "send"
    /\ WriteStatus(id, "sending", NoPath, NULL_INT, NULL)
    /\ observers' = [observers EXCEPT ![id].pc = "deliver"]
    /\ UNCHANGED <<now, polling, users, files, url_cache, is_running, sched,
                   admitted, firstAdmitLen, touched,
                   progress_messages, caught,
                   priority_purchases, lock, progress_loop, request>>

ObsDeliver_unlink(id, sent) ==
    /\ observers[id].pc = "deliver"
    /\ LET file_path == observers[id].file_path
           file_size == observers[id].file_size
           outcome == IF id \notin progress_messages THEN "no_message"
                      ELSE IF file_size > MAX_FILE_SIZE_MB * 1024 * 1024 THEN "link"
                      ELSE IF sent /\ file_path \in DOMAIN files THEN "inline"
                      ELSE "send_error"
       IN /\ files' = IF outcome \in {"inline", "link"}
                      THEN [p \in DOMAIN files \ {file_path} |-> files[p]]
                      ELSE files
          /\ observers' = [observers EXCEPT ![id].pc = "done", ![id].outcome = outcome]
    /\ UNCHANGED <<now, polling, users, downloads, url_cache, is_running, sched,
                   admitted, firstAdmitLen, touched, terminal, lastWrite,
                   progress_messages, caught,
                   priority_purchases, lock, progress_loop, request>>

ObsDeliver_requeue(id, sent) ==
    /\ observers[id].pc = "deliver"
    /\ LET file_path == observers[id].file_path
           file_size == observers[id].file_size
           outcome == IF id \notin progress_messages THEN "no_message"
                      ELSE IF file_size > MAX_FILE_SIZE_MB * 1024 * 1024 THEN "link"
                      ELSE IF sent /\ file_path \in DOMAIN files THEN "inline"
                      ELSE "send_error"
       IN /\ files' = IF outcome = "inline"
                      THEN [p \in DOMAIN files \ {file_path} |-> files[p]]
                      ELSE files
          /\ downloads' = IF outcome = "send_error"
                          THEN [downloads EXCEPT ![id].status = "pending"]
                          ELSE downloads
          /\ observers' = [observers EXCEPT ![id].pc = "done", ![id].outcome = outcome]
    /\ UNCHANGED <<now, polling, users, url_cache, is_running, sched,
                   admitted, firstAdmitLen, touched, terminal, lastWrite,
                   progress_messages, caught,
                   priority_purchases, lock, progress_loop, request>>

ObsDeliver_ge(id, sent) ==
    /\ observers[id].pc = "deliver"
    /\ LET file_path == observers[id].file_path
           file_size == observers[id].file_size
           outcome == IF id \notin progress_messages THEN "no_message"
                      ELSE IF file_size >= MAX_FILE_SIZE_MB * 1024 * 1024 THEN "link"
                      ELSE IF sent /\ file_path \in DOMAIN files THEN "inline"
                      ELSE "send_error"
       IN /\ files' = IF outcome = "inline"
                      THEN [p \in DOMAIN files \ {file_path} |-> files[p]]
                      ELSE files
          /\ observers' = [observers EXCEPT ![id].pc = "done", ![id].outcome = outcome]
    /\ UNCHANGED <<now, polling, users, downloads, url_cache, is_running, sched,
                   admitted, firstAdmitLen, touched, terminal, lastWrite,
                   progress_messages, caught,
                   priority_purchases, lock, progress_loop, request>>

\* _send_completed_download, lines 1017-1099, under progress_lock: nothing
\* without the job's progress message; a link for a file over the limit;
\* otherwise the inline send, which unlinks the file when it succeeded. The
\* send fails when sent is false, or when the file is gone at open().
ObsDeliver(id, sent) ==
    /\ observers[id].pc = "deliver"
    /\ LET file_path == observers[id].file_path
           file_size == observers[id].file_size
           outcome == IF id \notin progress_messages THEN "no_message"
                      ELSE IF file_size > MAX_FILE_SIZE_MB * 1024 * 1024 THEN "link"
                      ELSE IF sent /\ file_path \in DOMAIN files THEN "inline"
                      ELSE "send_error"
       IN /\ files' = IF outcome = "inline"
                      THEN [p \in DOMAIN files \ {file_path} |-> files[p]]
                      ELSE files
          /\ observers' = [observers EXCEPT ![id].pc = "done", ![id].outcome = outcome]
    /\ UNCHANGED <<now, polling, users, downloads, url_cache, is_running, sched,
                   admitted, firstAdmitLen, touched, terminal, lastWrite,
                   progress_messages, caught,
                   priority_purchases, lock, progress_loop, request>>

\* cleanup_caches, run every 10 minutes by run_bot's cleanup thread: drops the
\* url_cache entries older than an hour (old), and clears progress_messages
\* when no download is active.
cleanup_caches(old) ==
    /\ polling
    /\ url_cache' = [u \in DOMAIN url_cache \ old |-> url_cache[u]]
    /\ progress_messages' = IF count_active_downloads(downloads) = 0
                            THEN {} ELSE progress_messages
    /\ UNCHANGED <<now, polling, users, downloads, files, is_running, sched, observers,
                   admitted, firstAdmitLen, touched, terminal, lastWrite, caught,
                   priority_purchases, lock, progress_loop, request>>

SchedRaise_exit(t) ==
    /\ \/ sched[t].pc = "loop" /\ is_running
       \/ sched[t].pc \in {"read_pending", "process"}
    /\ caught < MaxCaught
    /\ caught' = caught + 1
    /\ sched' = [sched EXCEPT ![t] = [IdleSched EXCEPT !.pc = "exited"]]
    /\ UNCHANGED <<now, polling, users, downloads, files, url_cache, is_running,
                   observers, admitted, firstAdmitLen, touched, terminal, lastWrite,
                   progress_messages,
                   priority_purchases, lock, progress_loop, request>>

\* _run_loop, lines 68-70: a store read of the tick raises (sqlite3.Error), or
\* both status writes of _process_download do (lines 87 and 129) and the
\* exception escapes it; the handler logs, sleeps and the loop goes on.
SchedRaise(t) ==
    /\ \/ sched[t].pc = "loop" /\ is_running
       \/ sched[t].pc \in {"read_pending", "process"}
    /\ caught < MaxCaught
    /\ caught' = caught + 1
    /\ sched' = [sched EXCEPT ![t] = [IdleSched EXCEPT !.pc = "loop"]]
    /\ UNCHANGED <<now, polling, users, downloads, files, url_cache, is_running,
                   observers, admitted, firstAdmitLen, touched, terminal, lastWrite,
                   progress_messages,
                   priority_purchases, lock, progress_loop, request>>

\* The clock.
AdvanceTime ==
    /\ now < MaxTime
    /\ now' = now + 1
    /\ UNCHANGED <<polling, users, downloads, files, url_cache, is_running, sched,
                   observers, admitted, firstAdmitLen, touched, terminal, lastWrite,
                   progress_messages, caught,
                   priority_purchases, lock, progress_loop, request>>

FetchErrors == {Unavailable}

\* ---------------------------------------------------------- specifications
\* The parts of the next-state relation, each over the inputs it is given.

\* Users in U send links and choose formats while fewer than MaxJobs rows exist.
Submission(U) ==
    \/ run_bot
    \/ \E u \in U, url \in Urls : handle_video_link(u, url) /\ UNCHANGED request
    \/ \E u \in U, fmt \in Formats :
          /\ Len(downloads) < MaxJobs
          /\ handle_download_callback(u, fmt)
          /\ UNCHANGED request

\* The operator's commands, sent by any caller in U about any user in U, for
\* a number of days in D.
Operator(U, D) ==
    \/ \E c \in U, u \in U, d \in D :
          process_give_priority(c, u, d) /\ UNCHANGED request
    \/ \E c \in U, u \in U :
          process_remove_priority(c, u) /\ UNCHANGED request

\* The scheduler loop up to the admission.
Admission ==
    \/ \E t \in Threads : SchedCount(t)
    \/ \E t \in Threads : SchedReadPending(t)
    \/ \E t \in Threads : ProcessAdmit(t)

\* Fetches that succeed, with a file whose size is in S.
FetchOk(S) ==
    \/ \E t \in Threads, n \in FileNames, sz \in S, w \in BOOLEAN :
          FetchSucceed(t, n, sz, w)
    \/ \E t \in Threads : Complete(t)

\* Fetches that fail.
FetchKo == \E t \in Threads, e \in FetchErrors : FetchFail(t, e)

\* The observer threads of jobs that are not delivered.
Watchers ==
    \/ \E id \in DOMAIN observers : ObsPoll(id)
    \/ \E id \in DOMAIN observers : ObsFinal(id)

\* Fetches that end with an error that download_video does not name.
FetchRaw == \E t \in Threads : FetchFail(t, SignIn)

\* Fetches that end with a timeout.
FetchTimeout == \E t \in Threads, e \in TimeoutTexts : FetchFail(t, e)

\* Store reads of the scheduler tick that raise.
Faults == \E t \in Threads : SchedRaise(t)

\* The periodic cleanup thread of run_bot.
Cleanup == \E old \in SUBSET DOMAIN url_cache : cleanup_caches(old)

\* The observer threads.
Observers ==
    \/ \E id \in DOMAIN observers : ObsPoll(id)
    \/ \E id \in DOMAIN observers : ObsFinal(id)
    \/ \E id \in DOMAIN observers : ObsSend(id)
    \/ \E id \in DOMAIN observers, sent \in BOOLEAN : ObsDeliver(id, sent)

\* The queue as main.py runs it: submissions, the one scheduler thread that
\* run_bot starts, the executor and the observers.
Next == Submission({ADMIN_ID}) \/ Admission \/ FetchOk(Sizes) \/ FetchKo \/ Observers

Spec == Init /\ [][Next]_vars

\* The QueueWorker interface used freely: stop() and start() on the running process.
NextWorkerApi ==
    \/ Submission({ADMIN_ID})
    \/ Admission
    \/ FetchOk({Threshold})
    \/ FetchKo
    \/ StartWorker
    \/ StopWorker

SpecWorkerApi == Init /\ [][NextWorkerApi]_vars

\* Priorities: the operator grants and revokes while users submit and the
\* scheduler admits.
NextPriority == Submission(UserIds) \/ Operator(UserIds, GiveDays) \/ Admission \/ FetchKo

SpecPriority == Init /\ [][NextPriority]_vars

\* Expiry: as SpecPriority for two users, with the clock running.
NextExpiry ==
    \/ Submission(1..2)
    \/ Operator(1..2, {1})
    \/ Admission
    \/ FetchKo
    \/ AdvanceTime

SpecExpiry == Init /\ [][NextExpiry]_vars

\* The executor under the worker API, every fetch call returning and every
\* thread that is inside _process_download going on to run.
Returns(t) ==
    \/ \E n \in FileNames, w \in BOOLEAN : FetchSucceed(t, n, Threshold, w)
    \/ \E e \in FetchErrors : FetchFail(t, e)
    \/ Complete(t)

SpecExecutor ==
    Init /\ [][NextWorkerApi]_vars /\ \A t \in Threads : WF_vars(Returns(t))

\* The queue under fair scheduling: the scheduler loop goes on, every fetch
\* call returns, and every observer thread goes on.
NextQueue ==
    \/ Submission({ADMIN_ID})
    \/ Admission
    \/ FetchOk({Threshold})
    \/ FetchKo
    \/ Observers

SpecQueue ==
    /\ Init
    /\ [][NextQueue]_vars
    /\ WF_vars(Admission)
    /\ WF_vars(FetchOk({Threshold}) \/ FetchKo)
    /\ WF_vars(Observers)

\* Delivery: fetches that succeed with files of every size, the observers
\* that deliver them, and the periodic cleanup.
NextDelivery ==
    \/ Submission({ADMIN_ID})
    \/ Admission
    \/ FetchOk(Sizes)
    \/ Observers
    \/ Cleanup

SpecDelivery == Init /\ [][NextDelivery]_vars

\* The update that a handler is called for: its sender, the handler, and the
\* user or purchase it names.
Handled(caller, handler, arg) ==
    request' = [from |-> caller, handler |-> handler, arg |-> arg, days |-> 0,
                n |-> 1 - request.n]

\* The update that process_give_priority is called for: "<ID> <days>".
HandledGrant(caller, user_id, days) ==
    request' = [from |-> caller, handler |-> "process_give_priority",
                arg |-> user_id, days |-> days, n |-> 1 - request.n]

\* The numbers of days the operator writes.
GrantDays == {-1, 0, 1, 2}

\* Grants: the operator grants any number of days to any user, themselves
\* included, and removes priorities, while users are upserted and the clock
\* runs.
NextGrant ==
    \/ run_bot
    \/ \E u \in UserIds, url \in Urls :
          handle_video_link(u, url) /\ Handled(u, "handle_video_link", u)
    \/ \E c \in UserIds, u \in UserIds, d \in GrantDays :
          process_give_priority(c, u, d) /\ HandledGrant(c, u, d)
    \/ \E c \in UserIds, u \in UserIds :
          process_remove_priority(c, u) /\ Handled(c, "process_remove_priority", u)
    \/ AdvanceTime

SpecGrant == Init /\ [][NextGrant]_vars

\* The callers of the bot and the users they name.
Callers == 1..2

\* Every handler that touches the users table or the purchases, called by any
\* caller, with the update it is called for on record.
Updates ==
    \/ \E c \in Callers, url \in Urls :
          handle_video_link(c, url) /\ Handled(c, "handle_video_link", c)
    \/ \E c \in Callers, fmt \in Formats :
          /\ Len(downloads) < MaxWatched
          /\ handle_download_callback(c, fmt)
          /\ Handled(c, "handle_download_callback", c)
    \/ \E c \in Callers, u \in Callers, d \in GiveDays :
          process_give_priority(c, u, d) /\ Handled(c, "process_give_priority", u)
    \/ \E c \in Callers, u \in Callers :
          process_remove_priority(c, u) /\ Handled(c, "process_remove_priority", u)
    \/ \E c \in Callers, purchase_id \in 1..(MaxPurchases + 1) :
          /\ handle_confirm_priority_callback(c, purchase_id)
          /\ Handled(c, "handle_confirm_priority_callback", purchase_id)
    \/ \E c \in Callers, purchase_id \in 1..(MaxPurchases + 1) :
          /\ handle_reject_priority_callback(c, purchase_id)
          /\ Handled(c, "handle_reject_priority_callback", purchase_id)

\* Purchase requests, entered through the store.
Purchases == \E u \in Callers : add_priority_purchase(u)

\* Access: every handler called by the operator and by another user, purchase
\* requests, and one job scheduled and executed.
NextAccess ==
    \/ run_bot
    \/ Updates
    \/ Purchases
    \/ Admission
    \/ FetchKo

SpecAccess == Init /\ [][NextAccess]_vars

\* The byte counts a progress report carries; total is an estimate, which
\* the bytes downloaded can exceed.
Bytes == 0..2

\* The progress reports of the fetches.
Hooks ==
    \E t \in Threads, downloaded \in Bytes, total \in Bytes, wrote \in BOOLEAN :
        ProgressHook(t, downloaded, total, wrote)

\* The observer threads, with the locals of their polling loops.
Pollers ==
    \/ \E id \in DOMAIN observers, ok \in BOOLEAN : ObsPollEmit(id, ok)
    \/ \E id \in DOMAIN observers : ObsFinal(id)
    \/ \E id \in DOMAIN observers : ObsSend(id)
    \/ \E id \in DOMAIN observers, sent \in BOOLEAN : ObsDeliver(id, sent)

\* Progress: the fetches of up to MaxWatched jobs report progress, succeed or
\* fail, while the clock runs and the observers poll.
NextProgress ==
    \/ Len(downloads) < MaxWatched /\ Submission({ADMIN_ID})
    \/ Admission
    \/ FetchOk({Threshold})
    \/ FetchKo
    \/ Hooks
    \/ Pollers
    \/ AdvanceTime

SpecProgress == Init /\ [][NextProgress]_vars

\* Failures: fetches that fail, by timeout among others, store reads of the
\* tick that raise, and the observers that report the failures.
NextFailures ==
    \/ Submission({ADMIN_ID})
    \/ Admission
    \/ FetchKo
    \/ FetchTimeout
    \/ FetchRaw
    \/ Faults
    \/ Watchers

SpecFailures == Init /\ [][NextFailures]_vars

\* completed_at is datetime.now() to the microsecond and a fetch takes time:
\* the clock has moved on since the last completion.
TimePassed == \A id \in DOMAIN downloads : downloads[id].completed_at < now

\* The result cache: two users submit the same link, fetches succeed, each
\* completing at an instant of its own, and the observers deliver. The cache
\* reads the clock through completed_at only, so the clock is stepped once
\* after each completion.
NextCache ==
    \/ Submission(1..2)
    \/ Admission
    \/ TimePassed /\ FetchOk({Threshold})
    \/ Observers
    \/ ~TimePassed /\ AdvanceTime

SpecCache == Init /\ [][NextCache]_vars

\* get_all_pending_downloads as a function of the store: every table of
\* pending jobs and every priority state the handlers can leave, at every
\* instant, read by one scheduler tick.
GrantedBy(t) == {NullPU, InfPU} \cup {IsoPU(g + TicksPerDay) : g \in 0..t}
PendingRows(t) == {NewRow(u, url, fmt, c) : u \in UserIds, url \in Urls,
                                            fmt \in Formats, c \in 0..t}
PendingTables(t) ==
    {d \in UNION {[1..n -> PendingRows(t)] : n \in 0..MaxJobs} :
        \A i \in DOMAIN d, j \in DOMAIN d : i < j => d[i].created_at <= d[j].created_at}

InitPending ==
    /\ now \in 0..MaxTime
    /\ polling = TRUE
    /\ users \in [UserIds -> GrantedBy(now)]
    /\ downloads \in PendingTables(now)
    /\ files = <<>>
    /\ url_cache = [u \in UserIds |-> CHOOSE url \in Urls : TRUE]
    /\ is_running = TRUE
    /\ sched = [t \in Threads |->
                  IF t = 1 THEN [IdleSched EXCEPT !.pc = "read_pending"] ELSE IdleSched]
    /\ observers = [id \in DOMAIN downloads |-> NewObserver]
    /\ admitted = <<>>
    /\ firstAdmitLen = 0
    /\ touched = {}
    /\ terminal = {}
    /\ lastWrite = [id \in DOMAIN downloads |-> NoWrite]
    /\ progress_messages = DOMAIN downloads
    /\ caught = 0
    /\ progress_loop = [id \in DOMAIN downloads |-> NewLoop]
    /\ priority_purchases = <<>>
    /\ lock = FALSE
    /\ request = NoRequest

NextPending == \E t \in Threads : SchedReadPending(t)

SpecPending == InitPending /\ [][NextPending]_vars

\* ---------------------------------------------------------- http_server
\* Path(file_path).name: the last component of a path.
PathName(file_path) == file_path[Len(file_path)]

\* get_download_url -> get_file_url: "http://localhost:<port>/" followed by
\* file_path.name. The value is the path of the URL, as its components.
get_download_url(file_path) == <<PathName(file_path)>>

\* FileDownloadHandler.do_GET: Path(self.path.lstrip("/")) is resolved from
\* the working directory, which HTTPFileServer.start set to storage_dir, the
\* directory the paths of the model start from; the answer is 404 unless the
\* path is an existing file, and 200 with the file otherwise.
do_GET(path, fs) == IF path \in DOMAIN fs THEN 200 ELSE 404

\* run_bot ends (an interrupt of infinity_polling, line 1291, or the process
\* killed) while a fetch is running: the threads, which are daemon threads,
\* and everything held in memory end with the process; the database and the
\* files stay as they are.
ProcessStops ==
    /\ polling
    /\ \E t \in Threads : sched[t].pc = "fetching"
    /\ polling' = FALSE
    /\ is_running' = FALSE
    /\ sched' = [t \in Threads |-> IdleSched]
    /\ url_cache' = <<>>
    /\ progress_messages' = {}
    /\ observers' = [id \in DOMAIN observers |-> [observers[id] EXCEPT !.pc = "done"]]
    /\ lock' = FALSE
    /\ UNCHANGED <<now, users, downloads, files, admitted, firstAdmitLen, touched,
                   terminal, lastWrite, caught, progress_loop, priority_purchases,
                   request>>

\* The queue of a process that may stop during a fetch and is started again,
\* under fair scheduling of the start, the scheduler loop, the fetches and
\* the observers.
NextRestart ==
    \/ Submission({ADMIN_ID})
    \/ Admission
    \/ FetchOk({Threshold})
    \/ FetchKo
    \/ Observers
    \/ ProcessStops

SpecRestart ==
    /\ Init /\ [][NextRestart]_vars
    /\ WF_vars(run_bot)
    /\ WF_vars(Admission)
    /\ WF_vars(FetchOk({Threshold}) \/ FetchKo)
    /\ WF_vars(Observers)

\* The tables as the database layer accepts them: add_download takes any
\* user_id (the FOREIGN KEY of the schema is declared but SQLite enforces it
\* only under PRAGMA foreign_keys, which db.py never issues), so a job's owner
\* may have no row in users.
UserTables == UNION {[S -> {NullPU, InfPU}] : S \in SUBSET UserIds}

InitJoin ==
    /\ now = 0
    /\ polling = TRUE
    /\ users \in UserTables
    /\ downloads \in PendingTables(now)
    /\ files = <<>>
    /\ url_cache = [u \in UserIds |-> CHOOSE url \in Urls : TRUE]
    /\ is_running = TRUE
    /\ sched = [t \in Threads |->
                  IF t = 1 THEN [IdleSched EXCEPT !.pc = "read_pending"] ELSE IdleSched]
    /\ observers = [id \in DOMAIN downloads |-> NewObserver]
    /\ admitted = <<>>
    /\ firstAdmitLen = 0
    /\ touched = {}
    /\ terminal = {}
    /\ lastWrite = [id \in DOMAIN downloads |-> NoWrite]
    /\ progress_messages = DOMAIN downloads
    /\ caught = 0
    /\ progress_loop = [id \in DOMAIN downloads |-> NewLoop]
    /\ priority_purchases = <<>>
    /\ lock = FALSE
    /\ request = NoRequest

SpecJoin == InitJoin /\ [][NextPending]_vars

\* ------------------------------------------------------------------ claims

\* C1: in every reachable state the number of jobs whose status is downloading,
\* converting or sending is at most MAX_CONCURRENT_DOWNLOADS.
C1_ActiveWithinCap ==
    count_active_downloads(downloads) <= MAX_CONCURRENT_DOWNLOADS

\* The claims' reading of a user's priority at instant t: expired when
\* priority_until is an instant earlier than t; held when it is INFINITE or
\* an instant not earlier than t.
Expired(pu, t) == pu.kind = "iso" /\ pu.at < t
HoldsPriority(pu, t) == pu.kind = INFINITE \/ (pu.kind = "iso" /\ pu.at >= t)

\* Number of times line 87 marked job id downloading.
Admissions(id) == Cardinality({i \in DOMAIN admitted : admitted[i] = id})

\* C2: admission is exactly-once: no job is marked downloading (and fetched) by
\* two callers of _process_download.
C2_AdmittedOnce ==
    \A id \in DOMAIN downloads : Admissions(id) <= 1

\* Job id was submitted before any admission occurred.
PreAdmission(id) == admitted = <<>> \/ id <= firstAdmitLen
WasAdmitted(id) == Admissions(id) >= 1
AdmitIndex(id) ==
    CHOOSE i \in DOMAIN admitted :
        admitted[i] = id /\ \A k \in DOMAIN admitted : admitted[k] = id => i <= k
\* The job was marked failed by the mkdir handler without being admitted.
FailedUnadmitted(id) == downloads[id].status = "failed" /\ ~WasAdmitted(id)
Owner(id) == users[downloads[id].user_id]

\* C3: of two jobs submitted before any admission, whose owners' priority state
\* has not been written since, the job of the owner with unexpired or unbounded
\* priority is admitted before the job of the owner with none.
C3_PriorityAdmittedFirst ==
    \A a \in DOMAIN downloads, b \in DOMAIN downloads :
        ( /\ a # b
          /\ PreAdmission(a) /\ PreAdmission(b)
          /\ a \notin touched /\ b \notin touched
          /\ HoldsPriority(Owner(a), now)
          /\ Owner(b) = NullPU
          /\ ~FailedUnadmitted(a)
          /\ WasAdmitted(b) )
        => (WasAdmitted(a) /\ AdmitIndex(a) < AdmitIndex(b))

\* C5: jobs 1, 2, 3 submitted in this order by a user with no priority, one
\* with unbounded and one with time-bounded unexpired priority, before any
\* admission, are admitted in the order 2, 3, 1.
C5_ScenarioOrder ==
    ( /\ Len(downloads) = 3
      /\ \A id \in 1..3 : PreAdmission(id) /\ id \notin touched /\ WasAdmitted(id)
      /\ Owner(1) = NullPU
      /\ Owner(2) = InfPU
      /\ Owner(3).kind = "iso" /\ HoldsPriority(Owner(3), now)
      /\ Len(admitted) = 3 )
    => admitted = <<2, 3, 1>>

\* The list a scheduler tick has just read (line 61), for the ticks that
\* found a job; nothing else has run since in SpecPending, so downloads, users
\* and now are those the query saw.
JustRead == {sched[t].pending_downloads : t \in {x \in Threads : sched[x].pc = "process"}}
CreatedAt(id) == downloads[id].created_at

C6_ExpiredAsNoPriority ==
    LET lapsed == [u \in DOMAIN users |->
                     IF Expired(users[u], now) THEN NullPU ELSE users[u]]
    IN \A L \in JustRead : L = get_all_pending_downloads(downloads, lapsed, now)

\* Job a goes before job b under the owners' priority at instant t: a's owner
\* holds priority and b's does not, or they are level and a was created first.
LiveBefore(dls, us, t, a, b) ==
    LET ka == IF HoldsPriority(us[dls[a].user_id], t) THEN 0 ELSE 1
        kb == IF HoldsPriority(us[dls[b].user_id], t) THEN 0 ELSE 1
    IN \/ ka < kb
       \/ ka = kb /\ dls[a].created_at < dls[b].created_at

\* C7: the job a scheduler tick takes is a first pending job under the owners'
\* priority state (granted, revoked or expired) at that tick: no pending job
\* goes before it.
C7_TierAtTick ==
    [][\A t \in Threads :
          (sched[t].pc = "read_pending" /\ sched'[t].pc = "process")
          => \A k \in PendingIds(downloads, users) :
                ~LiveBefore(downloads, users, now, k, sched'[t].download)]_vars

StatusOrder == <<"pending", "downloading", "converting", "sending", "completed">>
Rank(st) == CHOOSE i \in DOMAIN StatusOrder : StatusOrder[i] = st
AllowedTransition(from, to) ==
    IF to = "failed" THEN from \in {"pending", "downloading", "converting"}
    ELSE from # "failed" /\ Rank(from) < Rank(to)

\* C8: every change of a job's status goes forward along pending, downloading,
\* converting, sending, completed, or to failed from pending, downloading or
\* converting.
C8_StatusMonotonic ==
    [][\A id \in DOMAIN downloads :
          downloads'[id].status # downloads[id].status
          => AllowedTransition(downloads[id].status, downloads'[id].status)]_vars

\* C9: a job that has reached completed or failed has, from then on, exactly
\* one of file_path and error_message set.
C9_TerminalExactlyOne ==
    \A id \in terminal :
        (downloads[id].file_path # NoPath) # (downloads[id].error_message # NULL)

\* C10: after update_download_status(id, 'completed', file_path=P,
\* file_size_bytes=S) with no later write to the job, get_download(id) returns
\* status completed, file_path P, file_size_bytes S and no error_message.
C10_CompletedRoundTrip ==
    \A id \in DOMAIN downloads :
        lastWrite[id].status = "completed"
        => LET download == get_download(downloads, id) IN
           /\ download.status = "completed"
           /\ download.file_path = lastWrite[id].file_path
           /\ download.file_size_bytes = lastWrite[id].file_size_bytes
           /\ download.error_message = NULL

\* Witness of C10: a completed write of a real path and a size over the limit
\* is the last write to some job.
C10_Witness ==
    \E id \in DOMAIN downloads :
        /\ lastWrite[id].status = "completed"
        /\ lastWrite[id].file_path \in Paths
        /\ lastWrite[id].file_size_bytes = Threshold + 1

\* The artifact path job id completed with: in its row while the row says
\* completed, and in its observer (the row it read at line 888) afterwards.
Artifact(id) ==
    IF downloads[id].status = "completed" THEN downloads[id].file_path
    ELSE observers[id].file_path

\* C11: a submission for a (url, format) for which some job has completed with
\* an artifact that still exists inserts no row into downloads, whether or not
\* that job's observer has run its delivery step.
C11_CacheHitAfterCompletion ==
    [][Len(downloads') > Len(downloads)
       => LET new == downloads'[Len(downloads')]
          IN ~\E id \in DOMAIN downloads :
                /\ downloads[id].video_url = new.video_url
                /\ downloads[id].format = new.format
                /\ Artifact(id) \in DOMAIN files]_vars

\* The completed records of (url, fmt) that the lookup may return, and those
\* of them whose artifact file exists.
CompletedFor(url, fmt) ==
    {id \in DOMAIN downloads : /\ downloads[id].video_url = url
                               /\ downloads[id].format = fmt
                               /\ downloads[id].status = "completed"
                               /\ downloads[id].file_path # NoPath}
LiveFor(url, fmt) ==
    {id \in CompletedFor(url, fmt) : downloads[id].file_path \in DOMAIN files}

\* C12: the cache lookup of a submission hits exactly when some completed job
\* of the pair has an existing artifact, and the job it returns then is one of
\* those, none of which was completed later.
C12_NewestLiveRecord ==
    \A url \in Urls, fmt \in Formats :
        LET cached == get_completed_download_by_url_format(downloads, url, fmt)
        IN /\ CacheHit(url, fmt) <=> LiveFor(url, fmt) # {}
           /\ CacheHit(url, fmt) =>
                /\ cached \in LiveFor(url, fmt)
                /\ \A id \in LiveFor(url, fmt) :
                      downloads[id].completed_at <= downloads[cached].completed_at

\* C13: a job whose fetch ended with a timeout is failed, and what its
\* observer shows for it is the category timeout.
C13_TimeoutCategory ==
    \A id \in DOMAIN downloads :
        downloads[id].error_message \in TimeoutTexts
        => /\ downloads[id].status = "failed"
           /\ friendly_error(downloads[id].error_message) = "timeout"
           /\ observers[id].pc = "done" => observers[id].outcome = "timeout"

\* C14: a job whose status is no longer pending is never set back to pending.
C14_NeverBackToPending ==
    [][\A id \in DOMAIN downloads :
          downloads[id].status # "pending" => downloads'[id].status # "pending"]_vars

\* Witness of C14: a job has failed, its observer has reported the failure and
\* ended, and the scheduler is reading the pending list again.
C14_Witness ==
    \E id \in DOMAIN downloads :
        /\ downloads[id].status = "failed"
        /\ observers[id].pc = "done"
        /\ \E t \in Threads : sched[t].pc = "read_pending"

\* C15: every job that is in status downloading or converting reaches
\* completed or failed, whether the fetch succeeds, reports a failure, or
\* leaves no file behind.
C15_AdmittedJobEnds ==
    \A id \in 1..MaxJobs :
        (id \in DOMAIN downloads /\ downloads[id].status \in {"downloading", "converting"})
        ~> (id \in DOMAIN downloads /\ downloads[id].status \in {"completed", "failed"})

\* Witness of C15: a job that was admitted is failed, and the thread that
\* processed it is back in the loop.
C15_Witness ==
    \E id \in DOMAIN downloads :
        /\ Admissions(id) >= 1
        /\ downloads[id].status = "failed"
        /\ \A t \in Threads : sched[t].pc \in {"none", "loop", "exited"}

\* C16: while a job is being fetched, the count of active downloads is below
\* the cap and another job is pending, a scheduler loop is running its ticks
\* (it is not held until the fetch returns).
C16_SchedulerNotBlocked ==
    (/\ \E t \in Threads : sched[t].pc = "fetching"
     /\ count_active_downloads(downloads) < MAX_CONCURRENT_DOWNLOADS
     /\ PendingIds(downloads, users) # {})
    => \E t \in Threads : sched[t].pc \in {"loop", "read_pending", "process"}

\* The jobs a step moves to downloading.
Started == {id \in DOMAIN downloads : /\ downloads[id].status # "downloading"
                                      /\ downloads'[id].status = "downloading"}

\* C17: a step moves at most one job to downloading; it is a step of a tick
\* that read a count of active downloads below the cap, the job is the head
\* of the pending list that tick read, and the tick then leaves the admission
\* (it goes on to the fetch).
C17_OneAdmissionPerTick ==
    [][Started # {}
       => \E t \in Threads :
             /\ sched[t].pc = "process"
             /\ sched'[t].pc = "fetching"
             /\ sched[t].active_count < MAX_CONCURRENT_DOWNLOADS
             /\ Started = {sched[t].pending_downloads[1]}]_vars

\* Witness of C17: a tick has admitted a job, which brought the count of
\* active downloads up to the cap.
C17_Witness ==
    /\ \E t \in Threads : sched[t].pc = "fetching"
    /\ Len(admitted) >= 2
    /\ count_active_downloads(downloads) = MAX_CONCURRENT_DOWNLOADS

\* C18: while is_running is true a scheduler loop thread is alive, whatever
\* exceptions its ticks have raised.
C18_LoopSurvives ==
    is_running => \E t \in Threads : sched[t].pc \notin {"none", "exited"}

\* Witness of C18: a tick has raised, and the loop has since admitted a job,
\* which it is fetching.
C18_Witness ==
    /\ caught >= 1
    /\ \E t \in Threads : sched[t].pc = "fetching"

\* The observers that read their job completed and have ended, and what
\* each did: "link", "inline" (sent and unlinked), "send_error" (the inline
\* send raised), or nothing ("empty", "missing", "no_message").
Ended ==
    {id \in DOMAIN observers :
        /\ observers[id].pc = "done"
        /\ observers[id].outcome \in {"link", "inline", "send_error", "empty",
                                       "missing", "no_message"}}

\* C19 (as stated): a job that completed is delivered as a link when its size
\* is over the threshold and inline when it is not.
C19_DeliveredBySize ==
    \A id \in Ended :
        IF observers[id].file_size > Threshold
        THEN observers[id].outcome = "link"
        ELSE observers[id].outcome \in {"inline", "send_error"}

\* C19 (amended): a link is sent only for a size over the threshold, an inline
\* send is made only for a non-empty file of a size up to the threshold, and a
\* delivery step that found a non-empty, existing file and the job's progress
\* message makes one of the two; an empty file is not delivered.
C19_PathBySize ==
    \A id \in Ended :
        LET size == observers[id].file_size
            outcome == observers[id].outcome
        IN /\ outcome = "link" => size > Threshold
           /\ outcome \in {"inline", "send_error"} => (0 < size /\ size <= Threshold)
           /\ outcome = "empty" => size = 0
           /\ outcome \notin {"empty", "missing", "no_message"}
                => outcome \in {"link", "inline", "send_error"}

\* Witness of C19: a job of threshold + 1 bytes was delivered as a link and a
\* job of exactly the threshold inline.
C19_Witness ==
    /\ \E id \in Ended : /\ observers[id].file_size = Threshold + 1
                         /\ observers[id].outcome = "link"
    /\ \E id \in Ended : /\ observers[id].file_size = Threshold
                         /\ observers[id].outcome = "inline"

\* C20: the delivery step removes the artifact file exactly when its inline
\* send succeeded, and then removes that file only; after a link, after an
\* inline send that raised, and after no delivery, it leaves every file as it
\* was.
C20_UnlinkIffInlineSent ==
    [][\A id \in DOMAIN observers :
          (observers[id].pc = "deliver" /\ observers'[id].pc = "done")
          => IF observers'[id].outcome = "inline"
             THEN /\ observers[id].file_path \in DOMAIN files
                  /\ files' = [p \in DOMAIN files \ {observers[id].file_path} |-> files[p]]
             ELSE files' = files]_vars

\* Witness of C20: one job was delivered by link and its file exists, and an
\* inline send of another job raised.
C20_Witness ==
    /\ \E id \in Ended : /\ observers[id].outcome = "link"
                         /\ observers[id].file_path \in DOMAIN files
    /\ \E id \in Ended : observers[id].outcome = "send_error"

\* C21: the delivery step of every completed job whose file exists and is not
\* empty finds the job's progress message and delivers, by link or inline,
\* however the observer interleaves with cleanup_caches and with other jobs.
C21_DeliveredDespiteCleanup ==
    \A id \in Ended :
        observers[id].outcome \notin {"missing", "empty"}
            => observers[id].outcome \in {"link", "inline", "send_error"}

\* C22: an observer is in its polling loop only while the last status it read
\* is neither completed nor failed, and has left the loop only after reading
\* one of the two.
C22_LeavesOnTerminal ==
    \A id \in DOMAIN observers :
        IF observers[id].pc = "poll"
        THEN progress_loop[id].status \notin {"completed", "failed"}
        ELSE progress_loop[id].status \in {"completed", "failed"}

\* Witness of C22: an observer polled twice without leaving and then left.
C22_Witness ==
    \E id \in DOMAIN observers :
        observers[id].pc = "final" /\ progress_loop[id].polls >= 2

\* C23: a poll edits the progress message only if more than
\* PROGRESS_UPDATE_INTERVAL has passed since the last edit, or the progress it
\* read differs from the progress last shown, or the status it read differs
\* from the status last shown.
C23_EmitsOnChangeOrInterval ==
    [][\A id \in DOMAIN progress_loop :
          LET old == progress_loop[id]
              new == progress_loop'[id]
          IN (new.polls # old.polls /\ new.emitted)
             => \/ now - old.emit_time > PROGRESS_UPDATE_INTERVAL
                \/ new.progress # old.emit_progress
                \/ new.status # old.emit_status]_vars

\* Witness of C23: a second or later poll edited the message at a later
\* instant than the loop started, and the job is still downloading.
C23_Witness ==
    \E id \in DOMAIN progress_loop :
        /\ progress_loop[id].polls >= 2
        /\ progress_loop[id].emitted
        /\ progress_loop[id].emit_time > progress_loop[id].start_time
        /\ progress_loop[id].last_status = "downloading"

\* C29: every job's stored progress is an integer from 0 to 100, whatever
\* progress reports the fetches make, reports of more bytes downloaded than
\* the estimated total among them.
C29_ProgressInRange ==
    \A id \in DOMAIN downloads : downloads[id].progress \in 0..100

\* Witness of C29: a fetch made a progress report and the job, failed with the
\* NameError of the hook, holds the progress it had.
C29_Witness ==
    \E id \in DOMAIN downloads :
        /\ downloads[id].status = "failed"
        /\ downloads[id].error_message = SelfUndefined
        /\ downloads[id].progress = 0

\* C26: the message shown for a failed job includes at most a truncated part
\* of the stored error text: a text longer than DiagnosticChars is never
\* shown in full.
C26_NoRawErrorText ==
    \A id \in DOMAIN observers :
        (/\ observers[id].pc = "done"
         /\ downloads[id].status = "failed"
         /\ observers[id].outcome \in {"geo", "private", "unavailable", "timeout", "other"}
         /\ Chars(downloads[id].error_message) > DiagnosticChars)
        => observers[id].error_shown < Chars(downloads[id].error_message)

\* C28: after every update_download_status call the job's completed_at is
\* set if and only if the status the call wrote is completed.
C28_CompletedAtIffCompleted ==
    \A id \in DOMAIN downloads :
        lastWrite[id].status # NULL
            => (downloads[id].completed_at # NULL_INT
                    <=> lastWrite[id].status = "completed")

\* Witness of C28: a job that was completed has had another status written.
C28_Witness ==
    \E id \in terminal :
        lastWrite[id].status = "sending" /\ downloads[id].completed_at = NULL_INT

\* C30: a delivery that fails is not retried and changes nothing of the job:
\* the delivery step leaves the job's row as it is, and an observer that has
\* ended takes no further step, its job staying as the failed delivery left it.
C30_FailedDeliveryNotRetried ==
    [][\A id \in DOMAIN observers :
          /\ (observers[id].pc = "deliver" /\ observers'[id].pc = "done")
                => downloads'[id] = downloads[id]
          /\ observers[id].pc = "done" => observers'[id] = observers[id]
          /\ (observers[id].pc = "done" /\ observers[id].outcome = "send_error")
                => downloads'[id] = downloads[id]]_vars

\* Witness of C30: the inline send of one job raised, the job is still in the
\* status the delivery step gave it, and a job submitted later has been
\* delivered.
C30_Witness ==
    \E id \in DOMAIN observers, later \in DOMAIN observers :
        /\ id < later
        /\ observers[id].pc = "done"
        /\ observers[id].outcome = "send_error"
        /\ downloads[id].status = "sending"
        /\ observers[later].outcome \in {"inline", "link"}

\* The update just handled, when the step is the handling of one.
Handling(handlers) ==
    /\ request'.n # request.n
    /\ request'.handler \in handlers

Resolved(purchase_id) ==
    priority_purchases[purchase_id].status \in {"confirmed", "rejected"}

\* C24: a purchase that is confirmed or rejected is not changed again, and a
\* later confirmation or rejection of it does not change its user's
\* priority_until.
C24_ResolvedOnce ==
    [][\A purchase_id \in DOMAIN priority_purchases :
          Resolved(purchase_id)
          => /\ priority_purchases'[purchase_id] = priority_purchases[purchase_id]
             /\ (/\ Handling({"handle_confirm_priority_callback",
                              "handle_reject_priority_callback"})
                 /\ request'.arg = purchase_id)
                => users' = users]_vars

\* C25: priority_until of an existing user changes, and a user appears with a
\* priority_until other than NULL, only in the handling of a grant, a removal
\* or a confirmation sent by the operator; no user is deleted.
C25_PriorityByOperatorOnly ==
    [][/\ DOMAIN users \subseteq DOMAIN users'
       /\ \A u \in DOMAIN users' :
            (IF u \in DOMAIN users THEN users'[u] # users[u] ELSE users'[u] # NullPU)
            => /\ Handling({"process_give_priority", "process_remove_priority",
                            "handle_confirm_priority_callback"})
               /\ request'.from = ADMIN_ID]_vars

\* Witness of C25: another user has sent commands and submitted a job that was
\* executed, and a user holds a priority the operator granted.
C25_Witness ==
    /\ request.from # ADMIN_ID
    /\ \E id \in DOMAIN downloads :
          downloads[id].user_id # ADMIN_ID /\ downloads[id].status = "failed"
    /\ \E u \in DOMAIN users : users[u] # NullPU

C31_LookupReadOnly ==
    [][Len(downloads') # Len(downloads)
       => /\ \A id \in DOMAIN downloads : downloads'[id] = downloads[id]
          /\ files' = files]_vars

\* Witness of C31: a job was added for a link and format of which an earlier
\* job is recorded completed with a file that no longer exists.
C31_Witness ==
    \E stale \in DOMAIN downloads, id \in DOMAIN downloads :
        /\ stale < id
        /\ downloads[stale].status = "completed"
        /\ downloads[stale].file_path # NoPath
        /\ downloads[stale].file_path \notin DOMAIN files
        /\ downloads[id].video_url = downloads[stale].video_url
        /\ downloads[id].format = downloads[stale].format
        /\ downloads[id].created_at >= downloads[stale].completed_at
        /\ downloads[id].status = "pending"

\* C32: a grant of a positive number of days to the operator's own id stores
\* INFINITE; to any other user a positive number stores the expiry that many
\* days ahead and a negative number stores INFINITE; zero days changes nothing.
C32_GrantStores ==
    [][Handling({"process_give_priority"})
       => LET u == request'.arg
              d == request'.days
          IN IF d = 0 THEN users' = users
             ELSE /\ u \in DOMAIN users'
                  /\ users'[u] = IF u = ADMIN_ID \/ d < 0 THEN InfPU
                                 ELSE IsoPU(now + d * TicksPerDay)
                  /\ \A x \in DOMAIN users : x # u => users'[x] = users[x]]_vars

\* Witness of C32: the operator's grant of two days to their own id stored
\* INFINITE while another user holds an expiry.
C32_Witness ==
    /\ request.handler = "process_give_priority"
    /\ request.arg = ADMIN_ID
    /\ request.days = 2
    /\ ADMIN_ID \in DOMAIN users
    /\ users[ADMIN_ID] = InfPU
    /\ \E u \in DOMAIN users : users[u].kind = "iso"

\* C33: every submitted job eventually has been completed or failed.
C33_EveryJobEnds ==
    \A id \in 1..MaxJobs : (id \in DOMAIN downloads) ~> (id \in terminal)

\* C34: every job in status sending eventually is completed or failed.
C34_SendingEnds ==
    \A id \in 1..MaxJobs :
        (id \in DOMAIN downloads /\ downloads[id].status = "sending")
            ~> (id \in DOMAIN downloads /\ downloads[id].status \in {"completed", "failed"})

\* C35: a status-only write (the 'downloading' write of _process_download and
\* the 'sending' write of _send_completed_download) changes the status only:
\* the stored file_path, file_size_bytes, error_message and completed_at stay.
C35_StatusOnlyWriteKeepsRest ==
    [][\A id \in DOMAIN downloads :
          /\ downloads'[id].status # downloads[id].status
          /\ downloads'[id].status \in {"downloading", "sending"}
          => /\ downloads'[id].file_path = downloads[id].file_path
             /\ downloads'[id].file_size_bytes = downloads[id].file_size_bytes
             /\ downloads'[id].error_message = downloads[id].error_message
             /\ downloads'[id].completed_at = downloads[id].completed_at]_vars

\* C36: once the scheduler has read get_all_pending_downloads, every job whose
\* status is pending is in the list it read, whether or not its owner has a
\* row in users.
C36_EveryPendingReturned ==
    \A t \in Threads :
        sched[t].pc \in {"loop", "process"} =>
            \A id \in DOMAIN downloads :
                downloads[id].status = "pending" =>
                    \E p \in DOMAIN sched[t].pending_downloads :
                        sched[t].pending_downloads[p] = id

\* The threads that are inside _run_loop (its loop test, its reads, or the
\* _process_download it called).
InRunLoop == {t \in Threads : sched[t].pc \notin {"none", "exited"}}

\* C37: whatever start() and stop() calls were made, at most one thread is
\* executing the scheduler loop.
C37_OneLoopThread == Cardinality(InRunLoop) <= 1

\* C38: the confirmation of a purchase does not reduce its user's priority: a
\* priority_until that was INFINITE stays INFINITE, and one that was an expiry
\* later than now + PRIORITY_DAYS is not earlier afterwards.
C38_ConfirmNeverReduces ==
    [][(/\ Handling({"handle_confirm_priority_callback"})
        /\ request'.arg \in DOMAIN priority_purchases
        /\ priority_purchases[request'.arg].user_id \in DOMAIN users)
       => LET u == priority_purchases[request'.arg].user_id IN
          /\ users[u].kind = INFINITE => users'[u].kind = INFINITE
          /\ (users[u].kind = "iso" /\ users[u].at > now + PRIORITY_DAYS * TicksPerDay)
             => \/ users'[u].kind = INFINITE
                \/ users'[u].kind = "iso" /\ users'[u].at >= users[u].at]_vars

\* C39: a job that is downloading, whether or not the process stops and is
\* started again meanwhile, eventually is completed or failed.
C39_DownloadingEnds ==
    \A id \in 1..MaxJobs :
        (id \in DOMAIN downloads /\ downloads[id].status = "downloading")
            ~> (id \in DOMAIN downloads /\ downloads[id].status \in {"completed", "failed"})

\* C40: for every artifact delivered by link that is still stored, the URL
\* get_download_url built for it is answered by do_GET with 200: it designates
\* the artifact's file.
C40_LinkServesArtifact ==
    \A id \in DOMAIN observers :
        (observers[id].outcome = "link" /\ observers[id].file_path \in DOMAIN files)
            => do_GET(get_download_url(observers[id].file_path), files) = 200

====
